---------------------------- MODULE Spec2Model ----------------------------
(***************************************************************************)
(* Resume vetter: the three variants of the analysis program               *)
(*   cv_vetter2.py  (Resume Vetter Pro, full_analysis_pipeline)            *)
(*   test.py        (AI-Powered CV Vetter)                                 *)
(*   cv_vetter.py   (AI Resume Analyzer)                                   *)
(* Numbers of years are kept in tenths (the code rounds to one decimal):   *)
(* experience = 10 stands for 1.0 year.                                    *)
(***************************************************************************)
EXTENDS Integers, Sequences, FiniteSets, TLC

VARIABLES
    experience,     \* classifier input: years of experience, in tenths
    project_score,  \* classifier input: integer project score
    dates,          \* experience calculator input: sequence of date tokens
    projects,       \* project scorer input: sequence of project segments
    tokens,         \* skill matcher input: the word tokens of the text
    ratios,         \* per project segment, its similarity to each known project
    ret,            \* what the applied function returned ([fn |-> "none"] before)
    entry,          \* the entry point of the run ("none": no run)
    pc,             \* the run's position in the entry point's step list (0: ended)
    doc,            \* the uploaded document: [blank, url]
    text,           \* the extracted text: [read |-> FALSE] or [read |-> TRUE, blank]
    hf_api_key,     \* whether an API key was given
    results,        \* the result fields computed so far
    steps,          \* the steps and network calls executed so far, in order
    failed,         \* the collaborators that failed in this run
    outcome         \* "running", "waiting" (inside a call that never returns),
                    \* "report", "precondition_error" or "exception"

runvars == <<entry, pc, doc, text, hf_api_key, results, steps, failed, outcome>>

vars == <<experience, project_score, dates, projects, tokens, ratios, ret, runvars>>

\* The run variables of the specifications that only apply a function.
NoRun ==
    /\ entry = "none"
    /\ pc = 0
    /\ doc = [blank |-> TRUE, url |-> FALSE]
    /\ text = [read |-> FALSE]
    /\ hf_api_key = FALSE
    /\ results = <<>>
    /\ steps = <<>>
    /\ failed = {}
    /\ outcome = "running"

NoCall == [fn |-> "none"]

(***************************************************************************)
(* Bounds of the model                                                     *)
(***************************************************************************)
MaxExp == 62        \* experience ranges over 0.0 .. 6.2 years
MaxScore == 9       \* project_score ranges over 0 .. 9
MaxDates == 4       \* a date-token sequence holds at most 4 tokens
MaxSegs == 3        \* a resume holds at most 3 project segments
MaxWords == 2       \* a segment holds at most 2 keyword occurrences
MaxTokens == 3      \* a text holds at most 3 word tokens
MaxPlagSegs == 2    \* the plagiarism check is given at most 2 project segments

(***************************************************************************)
(* Proficiency classifier, cv_vetter2.py                                   *)
(***************************************************************************)

\* determine_proficiency with the band tests written 1 < e < 3 and 3 <= e < 5.
determine_proficiency_slip(exp, score) ==
    IF exp <= 10
    THEN (IF score < 2 THEN <<"Entry Level", 1>> ELSE <<"Junior", 2>>)
    ELSE IF 10 < exp /\ exp < 30
    THEN (IF score < 4 THEN <<"Mid-Level", 3>> ELSE <<"Professional", 4>>)
    ELSE IF 30 <= exp /\ exp < 50
    THEN (IF score < 6 THEN <<"Senior", 5>> ELSE <<"Expert", 6>>)
    ELSE (IF score < 8 THEN <<"Principal", 7>> ELSE <<"Architect", 8>>)

determine_proficiency(exp, score) ==
    IF exp <= 10
    THEN (IF score < 2 THEN <<"Entry Level", 1>> ELSE <<"Junior", 2>>)
    ELSE IF 10 < exp /\ exp <= 30
    THEN (IF score < 4 THEN <<"Mid-Level", 3>> ELSE <<"Professional", 4>>)
    ELSE IF 30 < exp /\ exp <= 50
    THEN (IF score < 6 THEN <<"Senior", 5>> ELSE <<"Expert", 6>>)
    ELSE (IF score < 8 THEN <<"Principal", 7>> ELSE <<"Architect", 8>>)

(***************************************************************************)
(* Candidate categorisation, test.py.  categorize_branch is the number of  *)
(* the if/elif arm that is taken, 5 for the final else.                    *)
(***************************************************************************)
categorize_branch(exp, score) ==
    IF exp <= 10 /\ score <= 2 THEN 1
    ELSE IF 10 < exp /\ exp <= 30 /\ 2 < score /\ score <= 4 THEN 2
    ELSE IF 30 < exp /\ exp <= 50 /\ score > 4 THEN 3
    ELSE IF exp > 50 /\ score > 5 THEN 4
    ELSE 5

categorize_candidate(exp, score) ==
    CASE categorize_branch(exp, score) = 1 -> <<1, "Beginner">>
      [] categorize_branch(exp, score) = 2 -> <<3, "Intermediate">>
      [] categorize_branch(exp, score) = 3 -> <<4, "Professional">>
      [] categorize_branch(exp, score) = 4 -> <<6, "Expert">>
      [] OTHER -> <<2, "Intermediate">>

(***************************************************************************)
(* Interview readiness, cv_vetter2.py full_analysis_pipeline               *)
(***************************************************************************)
\* The readiness record with 'ready' also requiring a valid profile.
readiness_needs_profile(proficiency, score, linkedin_valid) ==
    [ready |-> proficiency[2] >= 3 /\ score >= 4 /\ linkedin_valid,
     score |-> proficiency[2] + (IF score >= 4 THEN 1 ELSE 0),
     factors |-> << <<"Proficiency Level", proficiency[2]>>,
                    <<"Project Score", score>>,
                    <<"LinkedIn Valid", linkedin_valid>> >>]

readiness(proficiency, score, linkedin_valid) ==
    [ready |-> proficiency[2] >= 3 /\ score >= 4,
     score |-> proficiency[2] + (IF score >= 4 THEN 1 ELSE 0),
     factors |-> << <<"Proficiency Level", proficiency[2]>>,
                    <<"Project Score", score>>,
                    <<"LinkedIn Valid", linkedin_valid>> >>]

(***************************************************************************)
(* Dates.  The tokenizer's patterns (month abbreviation, 4-digit year,     *)
(* "Present") carry no day, and the resolver fills what is missing from    *)
(* the current date, so a date is [y, m, d].  The arithmetic is that of    *)
(* datetime: proleptic Gregorian ordinals.                                 *)
(***************************************************************************)
None == [none |-> TRUE]      \* dateparser.parse found no date

current_date == [y |-> 2026, m |-> 11, d |-> 4]      \* datetime.now()

IsLeap(y) == y % 4 = 0 /\ (y % 100 # 0 \/ y % 400 = 0)

DaysBeforeYear(y) ==
    (y - 1) * 365 + ((y - 1) \div 4) - ((y - 1) \div 100) + ((y - 1) \div 400)

DaysBeforeMonth(y, m) ==
    <<0, 31, 59, 90, 120, 151, 181, 212, 243, 273, 304, 334>>[m]
        + (IF m > 2 /\ IsLeap(y) THEN 1 ELSE 0)

Ordinal(date) == DaysBeforeYear(date.y) + DaysBeforeMonth(date.y, date.m) + date.d

\* (end - start).days
DeltaDays(start, end) == Ordinal(end) - Ordinal(start)

\* relativedelta(end, start), for start <= end, as a number of whole months
\* (delta.years * 12 + delta.months; delta.days is not used by the caller).
RelativeMonths(start, end) ==
    (end.y - start.y) * 12 + (end.m - start.m) - (IF end.d < start.d THEN 1 ELSE 0)

Max(a, b) == IF a >= b THEN a ELSE b

(***************************************************************************)
(* The date tokens of the model and the fuzzy resolver dateparser.parse.   *)
(* A bare year resolves to that year with today's month and day, a month   *)
(* to that month of the current year; "0000" and the word "Present" do     *)
(* not resolve.                                                            *)
(***************************************************************************)
YearTokens == {"2019", "2024", "2030", "2032"}
MonthTokens == {"Jan"}
Tokens == YearTokens \cup MonthTokens \cup {"0000", "Present"}

YearOf(tok) ==
    CASE tok = "2019" -> 2019 [] tok = "2024" -> 2024
      [] tok = "2030" -> 2030 [] tok = "2032" -> 2032

MonthOf(tok) == CASE tok = "Jan" -> 1

dateparser_parse(tok) ==
    IF tok \in YearTokens
    THEN [y |-> YearOf(tok), m |-> current_date.m, d |-> current_date.d]
    ELSE IF tok \in MonthTokens
    THEN [y |-> current_date.y, m |-> MonthOf(tok), d |-> current_date.d]
    ELSE None

\* end_str.lower() != 'present'
IsPresent(tok) == tok \in {"Present", "present", "PRESENT"}

end_str(ds, p) == IF p + 1 <= Len(ds) THEN ds[p + 1] ELSE "Present"

end_date(tok) == IF ~IsPresent(tok) THEN dateparser_parse(tok) ELSE current_date

RECURSIVE SumOver(_, _)
SumOver(f, S) ==
    IF S = {} THEN 0
    ELSE LET x == CHOOSE x \in S : TRUE IN f[x] + SumOver(f, S \ {x})

\* round(days / 365.25, 1), in tenths.  40*days/1461 is never halfway
\* between two integers (80*days is even, 1461*(2k+1) is odd).
RoundDays(days) == (80 * days + 1461) \div 2922

\* round(months / 12, 1), in tenths, ties to even as round() does.
RoundMonths(months) ==
    LET q == (5 * months) \div 6
        r == (5 * months) % 6
    IN  IF r < 3 THEN q
        ELSE IF r > 3 THEN q + 1
        ELSE IF q % 2 = 0 THEN q ELSE q + 1

(***************************************************************************)
(* calculate_experience, cv_vetter2.py.  Positions are 1-based: the loop   *)
(* index i of range(0, len(dates)-1, 2) is position i + 1.                 *)
(***************************************************************************)
calculate_starts(ds) == {p \in 1..Len(ds) : p % 2 = 1 /\ p - 1 < Len(ds) - 1}

\* What one iteration adds to total_exp, in days.
calculate_delta_unclamped(ds, p) ==
    LET start == dateparser_parse(ds[p])
        end == end_date(end_str(ds, p))
    IN  IF start # None /\ end # None
        THEN IF Ordinal(start) > Ordinal(current_date) THEN 0
             ELSE DeltaDays(start, end)
        ELSE 0

calculate_delta(ds, p) ==
    LET start == dateparser_parse(ds[p])
        end == end_date(end_str(ds, p))
    IN  IF start # None /\ end # None
        THEN IF Ordinal(start) > Ordinal(current_date) THEN 0
             ELSE Max(DeltaDays(start, end), 0)
        ELSE 0

calculate_experience(ds) ==
    LET contrib == [p \in calculate_starts(ds) |-> calculate_delta(ds, p)]
        total == SumOver(contrib, calculate_starts(ds))
    IN  [contrib |-> contrib, total |-> total, val |-> RoundDays(total)]

(***************************************************************************)
(* parse_experience, cv_vetter.py: range(0, len(dates), 2), no test of     *)
(* the start against the current date.                                     *)
(***************************************************************************)
parse_starts(ds) == {p \in 1..Len(ds) : p % 2 = 1}

cv_parse_delta(ds, p) ==
    LET start == dateparser_parse(ds[p])
        end == end_date(end_str(ds, p))
    IN  IF start # None /\ end # None
        THEN Max(DeltaDays(start, end), 0)
        ELSE 0

cv_parse_experience(ds) ==
    LET contrib == [p \in parse_starts(ds) |-> cv_parse_delta(ds, p)]
        total == SumOver(contrib, parse_starts(ds))
    IN  [contrib |-> contrib, total |-> total, val |-> RoundDays(total)]

(***************************************************************************)
(* parse_experience, test.py: relativedelta, in months.                    *)
(***************************************************************************)
test_parse_delta(ds, p) ==
    LET start == dateparser_parse(ds[p])
        end == end_date(end_str(ds, p))
    IN  IF start # None /\ end # None /\ Ordinal(start) <= Ordinal(end)
        THEN RelativeMonths(start, end)
        ELSE 0

test_parse_experience(ds) ==
    LET contrib == [p \in parse_starts(ds) |-> test_parse_delta(ds, p)]
        total == SumOver(contrib, parse_starts(ds))
    IN  [contrib |-> contrib, total |-> total, val |-> RoundMonths(total)]

(***************************************************************************)
(* Specification of the experience calculators                             *)
(***************************************************************************)
RECURSIVE SeqsUpTo(_, _)
SeqsUpTo(S, n) ==
    IF n = 0 THEN {<<>>}
    ELSE LET shorter == SeqsUpTo(S, n - 1)
         IN  shorter \cup {Append(q, x) : q \in {r \in shorter : Len(r) = n - 1}, x \in S}

InitExp ==
    /\ experience = 0
    /\ project_score = 0
    /\ dates \in SeqsUpTo(Tokens, MaxDates)
    /\ projects = <<>>
    /\ tokens = <<>>
    /\ ratios = <<>>
    /\ ret = NoCall
    /\ NoRun

CalculateExperience ==
    /\ ret.fn = "none"
    /\ ret' = [fn |-> "calculate_experience", unit |-> "days",
               res |-> calculate_experience(dates)]
    /\ UNCHANGED <<experience, project_score, dates, projects, tokens, ratios, runvars>>

CvParseExperience ==
    /\ ret.fn = "none"
    /\ ret' = [fn |-> "cv_vetter.parse_experience", unit |-> "days",
               res |-> cv_parse_experience(dates)]
    /\ UNCHANGED <<experience, project_score, dates, projects, tokens, ratios, runvars>>

TestParseExperience ==
    /\ ret.fn = "none"
    /\ ret' = [fn |-> "test.parse_experience", unit |-> "months",
               res |-> test_parse_experience(dates)]
    /\ UNCHANGED <<experience, project_score, dates, projects, tokens, ratios, runvars>>

NextExp == CalculateExperience \/ CvParseExperience \/ TestParseExperience

SpecExp == InitExp /\ [][NextExp]_vars

(***************************************************************************)
(* Specification of the classifiers: the inputs are drawn in Init, each    *)
(* action applies one function to them.                                    *)
(***************************************************************************)
InitProf ==
    /\ experience \in 0..MaxExp
    /\ project_score \in 0..MaxScore
    /\ dates = <<>>
    /\ projects = <<>>
    /\ tokens = <<>>
    /\ ratios = <<>>
    /\ ret = NoCall
    /\ NoRun

DetermineProficiency ==
    /\ ret.fn = "none"
    /\ ret' = [fn |-> "determine_proficiency",
               val |-> determine_proficiency(experience, project_score)]
    /\ UNCHANGED <<experience, project_score, dates, projects, tokens, ratios, runvars>>

CategorizeCandidate ==
    /\ ret.fn = "none"
    /\ ret' = [fn |-> "categorize_candidate",
               branch |-> categorize_branch(experience, project_score),
               val |-> categorize_candidate(experience, project_score)]
    /\ UNCHANGED <<experience, project_score, dates, projects, tokens, ratios, runvars>>

\* Lines 209-228 of the pipeline: the tier, then the readiness verdict.
EvaluateReadiness ==
    /\ ret.fn = "none"
    /\ \E valid \in BOOLEAN :
         ret' = [fn |-> "readiness",
                 proficiency |-> determine_proficiency(experience, project_score),
                 val |-> readiness(determine_proficiency(experience, project_score),
                                   project_score, valid)]
    /\ UNCHANGED <<experience, project_score, dates, projects, tokens, ratios, runvars>>

NextProf == DetermineProficiency \/ CategorizeCandidate \/ EvaluateReadiness

SpecProf == InitProf /\ [][NextProf]_vars

(***************************************************************************)
(* Project segments.  The scorers only test `keyword in segment.lower()`,  *)
(* so a segment is the number of occurrences of each keyword in it.        *)
(***************************************************************************)
SampleKeywords == {"microservices", "api", "basic"}

Occurrences(seg) ==
    seg["microservices"] + seg["api"] + seg["basic"]

Segments == {seg \in [SampleKeywords -> 0..MaxWords] : Occurrences(seg) <= MaxWords}

\* keyword in project.lower()
Contains(seg, keyword) == keyword \in DOMAIN seg /\ seg[keyword] > 0

\* word in text.lower(), the text being the resume that holds the segments
TextContains(segs, word) == \E i \in 1..Len(segs) : Contains(segs[i], word)

(***************************************************************************)
(* score_projects, test.py: one point per (project, keyword) hit           *)
(***************************************************************************)
complexity_keywords ==
    <<"scalable", "microservices", "ci/cd", "optimized", "containerized",
      "authentication", "api", "cloud", "database", "latency">>

\* score_projects adding one point per occurrence instead of one per project
RECURSIVE test_project_hits_per_occurrence(_, _)
test_project_hits_per_occurrence(project, k) ==
    IF k > Len(complexity_keywords) THEN 0
    ELSE (IF Contains(project, complexity_keywords[k])
          THEN project[complexity_keywords[k]] ELSE 0)
         + test_project_hits_per_occurrence(project, k + 1)

\* the inner loop, from keyword number k on
RECURSIVE test_project_hits(_, _)
test_project_hits(project, k) ==
    IF k > Len(complexity_keywords) THEN 0
    ELSE (IF Contains(project, complexity_keywords[k]) THEN 1 ELSE 0)
         + test_project_hits(project, k + 1)

\* the outer loop, from project number i on
RECURSIVE test_score_from(_, _)
test_score_from(projs, i) ==
    IF i > Len(projs) THEN 0
    ELSE test_project_hits(projs[i], 1) + test_score_from(projs, i + 1)

test_score_projects(projs) == test_score_from(projs, 1)

(***************************************************************************)
(* score_projects, cv_vetter2.py: the weights of the keywords found in     *)
(* the whole text                                                          *)
(***************************************************************************)
keywords ==
    << <<"basic", 1>>, <<"intermediate", 2>>, <<"advanced", 3>>,
       <<"scalable", 3>>, <<"microservices", 3>>, <<"ci/cd", 2>>,
       <<"optimized", 2>>, <<"containerized", 3>> >>

RECURSIVE score_from(_, _)
score_from(segs, k) ==
    IF k > Len(keywords) THEN 0
    ELSE (IF TextContains(segs, keywords[k][1]) THEN keywords[k][2] ELSE 0)
         + score_from(segs, k + 1)

score_projects(segs) == score_from(segs, 1)

(***************************************************************************)
(* Specification of the project scorers, as their pipelines call them:     *)
(* test.main passes the segments, full_analysis_pipeline the whole text.   *)
(***************************************************************************)
InitScore ==
    /\ experience = 0
    /\ project_score = 0
    /\ dates = <<>>
    /\ projects \in SeqsUpTo(Segments, MaxSegs)
    /\ tokens = <<>>
    /\ ratios = <<>>
    /\ ret = NoCall
    /\ NoRun

TestScoreProjects ==
    /\ ret.fn = "none"
    /\ ret' = [fn |-> "test.score_projects", val |-> test_score_projects(projects)]
    /\ UNCHANGED <<experience, project_score, dates, projects, tokens, ratios, runvars>>

ScoreProjects ==
    /\ ret.fn = "none"
    /\ ret' = [fn |-> "score_projects", val |-> score_projects(projects)]
    /\ UNCHANGED <<experience, project_score, dates, projects, tokens, ratios, runvars>>

NextScore == TestScoreProjects \/ ScoreProjects

SpecScore == InitScore /\ [][NextScore]_vars

(***************************************************************************)
(* Skill matching.  The input is the sequence of word tokens the           *)
(* tokenizer (spaCy) finds in the text; str.lower and str.capitalize are   *)
(* given on the sample tokens.  A category's list is built from a set, so  *)
(* it is modelled as the set of its elements.                              *)
(***************************************************************************)
SampleTokens ==
    {"python", "Python", "REACT", "react", "docker", "spring", "typescript", "hello"}

\* str.lower()
Lower(tok) ==
    CASE tok = "Python" -> "python"
      [] tok = "REACT" -> "react"
      [] OTHER -> tok

\* str.capitalize(), of a lower-case word
Capitalize(word) ==
    CASE word = "python" -> "Python"
      [] word = "react" -> "React"
      [] word = "docker" -> "Docker"
      [] word = "spring" -> "Spring"
      [] word = "typescript" -> "Typescript"
      [] word = "hello" -> "Hello"

Categories == {"Languages", "Frameworks", "Tools"}

\* skills_db of cv_vetter2.py
skills_db ==
    [Languages |-> {"python", "java", "javascript", "c++", "sql"},
     Frameworks |-> {"react", "node.js", "django", "flask", "spring"},
     Tools |-> {"docker", "git", "aws", "jenkins", "kubernetes"}]

\* skills of cv_vetter.py
cv_skills ==
    [Languages |-> {"python", "java", "javascript", "c++", "sql"},
     Frameworks |-> {"react", "node.js", "django", "flask", "spring"},
     Tools |-> {"docker", "git", "aws", "jenkins", "kubernetes"}]

\* skills_db of test.py
test_skills_db ==
    [Languages |-> {"python", "java", "javascript", "typescript", "c++", "sql"},
     Frameworks |-> {"react", "node.js", "django", "flask", "next.js", "graphql"},
     Tools |-> {"docker", "kubernetes", "aws", "jenkins", "git", "rabbitmq"}]

\* {k: list(v) for k, v in found_skills.items() if v}
NonEmptyOnly(found) ==
    [c \in {k \in DOMAIN found : found[k] # {}} |-> found[c]]

\* extract_skills (cv_vetter2.py, cv_vetter.py): found_skills after the
\* tokens from number k on of nlp(text.lower()) have been visited.
RECURSIVE found_skills_from(_, _, _, _)
found_skills_from(db, toks, k, found) ==
    IF k > Len(toks) THEN found
    ELSE found_skills_from(db, toks, k + 1,
            [c \in Categories |->
                IF Lower(toks[k]) \in db[c]
                THEN found[c] \cup {Capitalize(Lower(toks[k]))}
                ELSE found[c]])

extract_skills(toks) ==
    NonEmptyOnly(found_skills_from(skills_db, toks, 1, [c \in Categories |-> {}]))

cv_extract_skills(toks) ==
    NonEmptyOnly(found_skills_from(cv_skills, toks, 1, [c \in Categories |-> {}]))

\* parse_skills (test.py): skills after the tokens from number k on of
\* nlp(text) have been visited; every category is returned.
RECURSIVE parse_skills_from(_, _, _)
parse_skills_from(toks, k, skills) ==
    IF k > Len(toks) THEN skills
    ELSE parse_skills_from(toks, k + 1,
            [c \in Categories |->
                IF Lower(toks[k]) \in test_skills_db[c]
                THEN skills[c] \cup {Lower(toks[k])}
                ELSE skills[c]])

parse_skills(toks) == parse_skills_from(toks, 1, [c \in Categories |-> {}])

(***************************************************************************)
(* Specification of the skill matchers                                     *)
(***************************************************************************)
InitSkills ==
    /\ experience = 0
    /\ project_score = 0
    /\ dates = <<>>
    /\ projects = <<>>
    /\ tokens \in SeqsUpTo(SampleTokens, MaxTokens)
    /\ ratios = <<>>
    /\ ret = NoCall
    /\ NoRun

ExtractSkills ==
    /\ ret.fn = "none"
    /\ ret' = [fn |-> "extract_skills", db |-> skills_db,
               val |-> extract_skills(tokens)]
    /\ UNCHANGED <<experience, project_score, dates, projects, tokens, ratios, runvars>>

CvExtractSkills ==
    /\ ret.fn = "none"
    /\ ret' = [fn |-> "cv_vetter.extract_skills", db |-> cv_skills,
               val |-> cv_extract_skills(tokens)]
    /\ UNCHANGED <<experience, project_score, dates, projects, tokens, ratios, runvars>>

ParseSkills ==
    /\ ret.fn = "none"
    /\ ret' = [fn |-> "test.parse_skills", db |-> test_skills_db,
               val |-> parse_skills(tokens)]
    /\ UNCHANGED <<experience, project_score, dates, projects, tokens, ratios, runvars>>

NextSkills == ExtractSkills \/ CvExtractSkills \/ ParseSkills

SpecSkills == InitSkills /\ [][NextSkills]_vars

(***************************************************************************)
(* check_plagiarism, test.py.  SequenceMatcher(None, project, kp).ratio()  *)
(* is a number from 0.0 to 1.0; it is kept in hundredths, and a segment is *)
(* given by its ratios to the known projects, in their order.  The result  *)
(* (plagiarism_score / len(projects)) * 100 is kept as the fraction        *)
(* num / den of hundredths; a Python error is recorded in 'raised'.        *)
(***************************************************************************)
known_projects == 1..3

SimLevels == {0, 50, 100}

\* max(list): ValueError on an empty list
RECURSIVE py_max_from(_, _, _)
py_max_from(list, k, best) ==
    IF k > Len(list) THEN best
    ELSE py_max_from(list, k + 1, IF list[k] > best THEN list[k] ELSE best)

py_max(list) ==
    IF Len(list) = 0 THEN [raised |-> "ValueError", val |-> 0]
    ELSE [raised |-> "none", val |-> py_max_from(list, 2, list[1])]

\* a / b: ZeroDivisionError when b is 0
py_div(a, b) ==
    IF b = 0 THEN [raised |-> "ZeroDivisionError", num |-> 0, den |-> 1]
    ELSE [raised |-> "none", num |-> a, den |-> b]

\* the loop of check_plagiarism from segment i on
RECURSIVE plagiarism_from(_, _, _)
plagiarism_from(rs, i, acc) ==
    IF acc.raised # "none" \/ i > Len(rs) THEN acc
    ELSE LET max_similarity == py_max([kp \in known_projects |-> rs[i][kp]])
         IN  plagiarism_from(rs, i + 1,
                [raised |-> max_similarity.raised,
                 val |-> acc.val + max_similarity.val])

\* The return statement without its 'if projects else 0'.
check_plagiarism_unguarded(rs) ==
    LET plagiarism_score == plagiarism_from(rs, 1, [raised |-> "none", val |-> 0])
    IN  IF plagiarism_score.raised # "none"
        THEN [raised |-> plagiarism_score.raised, num |-> 0, den |-> 1]
        ELSE py_div(plagiarism_score.val, Len(rs))

check_plagiarism(rs) ==
    LET plagiarism_score == plagiarism_from(rs, 1, [raised |-> "none", val |-> 0])
    IN  IF plagiarism_score.raised # "none"
        THEN [raised |-> plagiarism_score.raised, num |-> 0, den |-> 1]
        ELSE IF Len(rs) # 0 THEN py_div(plagiarism_score.val, Len(rs))
        ELSE [raised |-> "none", num |-> 0, den |-> 1]

(***************************************************************************)
(* Specification of the two functions of test.py that take the project     *)
(* segments                                                                *)
(***************************************************************************)
PlagSegments ==
    {seg \in Segments : Occurrences(seg) = 0 \/ (seg["api"] = 1 /\ Occurrences(seg) = 1)}

InitPlag ==
    /\ experience = 0
    /\ project_score = 0
    /\ dates = <<>>
    /\ projects \in SeqsUpTo(PlagSegments, MaxPlagSegs)
    /\ tokens = <<>>
    /\ ratios \in [1..Len(projects) -> [known_projects -> SimLevels]]
    /\ ret = NoCall
    /\ NoRun

CheckPlagiarism ==
    /\ ret.fn = "none"
    /\ ret' = [fn |-> "check_plagiarism", val |-> check_plagiarism(ratios)]
    /\ UNCHANGED <<experience, project_score, dates, projects, tokens, ratios, runvars>>

NextPlag == TestScoreProjects \/ CheckPlagiarism

SpecPlag == InitPlag /\ [][NextPlag]_vars

(***************************************************************************)
(* Runs.  A run is one call of an entry point on one uploaded document     *)
(* (for full_analysis_pipeline: on one resume text).  The mains are        *)
(* modelled from the point where a file has been uploaded (and, for        *)
(* cv_vetter.main, a token typed).  The document's date tokens are in      *)
(* dates, its project segments in projects.                                *)
(***************************************************************************)
Entries == {"cv_vetter2.main", "full_analysis_pipeline", "test.main", "cv_vetter.main"}

\* full_analysis_pipeline with the profile check moved up, before the scoring
full_analysis_steps_profile_first ==
    <<"extract_personal_details", "analyze_linkedin_profile", "calculate_experience",
      "extract_skills", "score_projects", "determine_proficiency",
      "readiness", "get_hf_analysis">>

\* The statements of full_analysis_pipeline, in order (before its return).
full_analysis_steps ==
    <<"extract_personal_details", "calculate_experience", "extract_skills",
      "score_projects", "determine_proficiency", "analyze_linkedin_profile",
      "readiness", "get_hf_analysis">>

\* The statements of test.main, in order.
test_main_steps ==
    <<"extract_text", "extract_name", "parse_email", "parse_experience",
      "parse_skills", "segment_projects", "score_projects", "check_plagiarism",
      "categorize_candidate", "scrape_linkedin", "interview_ready", "display">>

\* The statements of cv_vetter.main, in order.
cv_main_steps ==
    <<"extract_text", "parse_experience", "extract_skills", "get_ai_analysis",
      "display">>

StepsOf(e) ==
    CASE e = "full_analysis_pipeline" -> full_analysis_steps \o <<"return">>
      [] e = "cv_vetter2.main" -> <<"extract_text">> \o full_analysis_steps \o <<"display">>
      [] e = "test.main" -> test_main_steps
      [] e = "cv_vetter.main" -> cv_main_steps

Running == entry \in Entries /\ pc > 0 /\ outcome = "running"

At == StepsOf(entry)[pc]

\* The steps of the core: identity, experience, skills, project scoring,
\* classification, readiness.
ReadinessSteps == {"readiness", "interview_ready"}

CoreSteps ==
    {"extract_personal_details", "extract_name", "parse_email",
     "calculate_experience", "parse_experience", "extract_skills", "parse_skills",
     "segment_projects", "score_projects", "check_plagiarism",
     "determine_proficiency", "categorize_candidate"} \cup ReadinessSteps

\* The calls that go to the network.
NetworkCalls == {"requests.head", "requests.post", "driver.get"}

Set(field, value) == (field :> value) @@ results

\* The result field a core step assigns.
StepField(step) ==
    CASE step = "extract_personal_details" -> "personal"
      [] step = "extract_name" -> "name"
      [] step = "parse_email" -> "email"
      [] step \in {"calculate_experience", "parse_experience"} -> "experience"
      [] step \in {"extract_skills", "parse_skills"} -> "skills"
      [] step = "segment_projects" -> "projects"
      [] step = "score_projects" -> "project_score"
      [] step = "check_plagiarism" -> "plagiarism_score"
      [] step \in {"determine_proficiency", "categorize_candidate"} -> "proficiency"
      [] step = "readiness" -> "readiness"
      [] step = "interview_ready" -> "interview_ready"

\* The value a core step computes, from the text and the earlier results.
StepValue(e, step) ==
    CASE step = "extract_personal_details" ->
           [linkedin |-> IF doc.url THEN "linkedin.com/in/slug" ELSE "Not Found"]
      [] step = "calculate_experience" -> calculate_experience(dates).val
      [] step = "parse_experience" ->
           IF e = "test.main" THEN test_parse_experience(dates).val
           ELSE cv_parse_experience(dates).val
      [] step = "extract_skills" ->
           IF e = "cv_vetter.main" THEN cv_extract_skills(tokens)
           ELSE extract_skills(tokens)
      [] step = "parse_skills" -> parse_skills(tokens)
      [] step = "segment_projects" -> projects
      [] step = "check_plagiarism" -> check_plagiarism(ratios)
      [] step = "score_projects" ->
           IF e = "test.main" THEN test_score_projects(results["projects"])
           ELSE score_projects(projects)
      [] step = "determine_proficiency" ->
           determine_proficiency(results["experience"], results["project_score"])
      [] step = "categorize_candidate" ->
           categorize_candidate(results["experience"], results["project_score"])
      [] step = "readiness" ->
           readiness(results["proficiency"], results["project_score"],
                     results["linkedin"].valid)
      [] step = "interview_ready" ->
           IF results["proficiency"][1] >= 3 /\ results["project_score"] >= 3
           THEN "Yes" ELSE "No"
      [] OTHER -> <<step, "of the text">>   \* name, email

RunDates == {<<>>, <<"2024">>, <<"2019", "2024">>}

RunProjects ==
    {<<>>,
     <<[microservices |-> 1, api |-> 0, basic |-> 1]>>,
     <<[microservices |-> 1, api |-> 1, basic |-> 0],
       [microservices |-> 2, api |-> 0, basic |-> 0]>>}

RunTokens == {<<>>, <<"python", "Python", "REACT">>}

RunRatios == <<50, 0, 100>>

InitRun ==
    /\ experience = 0
    /\ project_score = 0
    /\ ret = NoCall
    /\ entry \in Entries
    /\ doc \in [blank : BOOLEAN, url : BOOLEAN]
    /\ doc.blank => ~doc.url
    /\ dates \in (IF doc.blank THEN {<<>>} ELSE RunDates)
    /\ projects \in (IF doc.blank THEN {<<>>} ELSE RunProjects)
    /\ tokens \in (IF doc.blank THEN {<<>>} ELSE RunTokens)
    /\ ratios = [i \in 1..Len(projects) |-> RunRatios]
    /\ hf_api_key \in BOOLEAN
    /\ pc = 1
    /\ text = (IF entry = "full_analysis_pipeline"
               THEN [read |-> TRUE, blank |-> doc.blank]
               ELSE [read |-> FALSE])
    /\ results = <<>>
    /\ steps = <<>>
    /\ failed = {}
    /\ outcome = "running"

\* extract_text.  cv_vetter2 wraps the parsing in try/except and returns ""
\* on an exception, and its main stops on empty text; test.py and
\* cv_vetter.py parse without a try.
ExtractText ==
    /\ Running
    /\ At = "extract_text"
    /\ \E parse \in {"text", "raises"} :
         IF entry = "cv_vetter2.main"
         THEN LET t == [read |-> TRUE,
                        blank |-> IF parse = "raises" THEN TRUE ELSE doc.blank]
              IN  /\ text' = t
                  /\ failed' = (IF parse = "raises"
                                THEN failed \cup {"extract_text"} ELSE failed)
                  /\ IF t.blank
                     THEN pc' = 0 /\ outcome' = "precondition_error"
                     ELSE pc' = pc + 1 /\ outcome' = outcome
         ELSE IF parse = "raises"
              THEN /\ text' = text
                   /\ failed' = failed \cup {"extract_text"}
                   /\ pc' = 0
                   /\ outcome' = "exception"
              ELSE /\ text' = [read |-> TRUE, blank |-> doc.blank]
                   /\ failed' = failed
                   /\ pc' = pc + 1
                   /\ outcome' = outcome
    /\ steps' = Append(steps, "extract_text")
    /\ UNCHANGED <<experience, project_score, dates, projects, tokens, ratios, ret,
                   entry, doc, hf_api_key, results>>

\* A step of the core: a pure function of the text and the earlier results.
CoreStep ==
    /\ Running
    /\ At \in CoreSteps
    /\ results' = Set(StepField(At), StepValue(entry, At))
    /\ steps' = Append(steps, At)
    /\ pc' = pc + 1
    /\ UNCHANGED <<experience, project_score, dates, projects, tokens, ratios, ret,
                   entry, doc, text, hf_api_key, failed, outcome>>

\* analyze_linkedin_profile, cv_vetter2.py: no request without a URL;
\* requests.head(timeout=5) inside try/except otherwise (a server that does
\* not answer within 5 seconds makes it raise).
AnalyzeLinkedinProfile ==
    /\ Running
    /\ At = "analyze_linkedin_profile"
    /\ IF results["personal"].linkedin = "Not Found"
       THEN /\ results' = Set("linkedin",
                     [valid |-> FALSE, issues |-> <<"No LinkedIn found">>,
                      recommendations |-> <<>>])
            /\ steps' = Append(steps, "analyze_linkedin_profile")
            /\ failed' = failed
       ELSE \E response \in {"200", "non200", "raises"} :
              LET issues == CASE response = "200" -> <<>>
                              [] response = "non200" -> <<"Profile unavailable (HTTP)">>
                              [] response = "raises" -> <<"Connection error">>
              IN  /\ results' = Set("linkedin",
                        [valid |-> Len(issues) = 0, issues |-> issues,
                         recommendations |->
                            IF Len(issues) = 0
                            THEN <<"Ensure profile is public", "Add profile picture",
                                   "Include detailed experience">>
                            ELSE <<>>])
                  /\ steps' = steps \o <<"analyze_linkedin_profile", "requests.head">>
                  /\ failed' = (IF response = "raises"
                                THEN failed \cup {"analyze_linkedin_profile"}
                                ELSE failed)
    /\ pc' = pc + 1
    /\ UNCHANGED <<experience, project_score, dates, projects, tokens, ratios, ret,
                   entry, doc, text, hf_api_key, outcome>>

\* The answers of the language-model endpoint to requests.post, which is
\* called without a timeout: a server that never answers keeps the call
\* from returning.
PostResponses == {"200", "non200", "raises", "no_answer"}

\* get_hf_analysis, cv_vetter2.py: called only with an API key;
\* requests.post inside try/except.
GetHfAnalysis ==
    /\ Running
    /\ At = "get_hf_analysis"
    /\ IF ~hf_api_key
       THEN pc' = pc + 1 /\ UNCHANGED <<results, steps, failed, outcome>>
       ELSE \E response \in PostResponses :
              /\ steps' = steps \o <<"get_hf_analysis", "requests.post">>
              /\ IF response = "no_answer"
                 THEN /\ outcome' = "waiting"
                      /\ UNCHANGED <<results, failed, pc>>
                 ELSE /\ results' = Set("ai_analysis",
                            CASE response = "200" -> "generated_text"
                              [] response = "non200" -> "API Error: "
                              [] response = "raises" -> "AI Analysis Failed: ")
                      /\ failed' = (IF response = "200" THEN failed
                                    ELSE failed \cup {"get_hf_analysis"})
                      /\ pc' = pc + 1
                      /\ outcome' = outcome
    /\ UNCHANGED <<experience, project_score, dates, projects, tokens, ratios, ret,
                   entry, doc, text, hf_api_key>>

\* get_ai_analysis, cv_vetter.py: requests.post inside try/except.
GetAiAnalysis ==
    /\ Running
    /\ At = "get_ai_analysis"
    /\ \E response \in PostResponses :
         IF response = "no_answer"
         THEN /\ outcome' = "waiting"
              /\ UNCHANGED <<results, failed, pc>>
         ELSE /\ results' = Set("ai_analysis",
                     CASE response = "200" -> "generated_text"
                       [] response = "non200" -> "API Error: "
                       [] response = "raises" -> "Analysis failed: ")
              /\ failed' = (IF response = "200" THEN failed
                            ELSE failed \cup {"get_ai_analysis"})
              /\ pc' = pc + 1
              /\ outcome' = outcome
    /\ steps' = steps \o <<"get_ai_analysis", "requests.post">>
    /\ UNCHANGED <<experience, project_score, dates, projects, tokens, ratios, ret,
                   entry, doc, text, hf_api_key>>

\* The profile scrape of test.main: only when the text holds a profile URL.
\* uc.Chrome(...) is called before the try; driver.get and the wait
\* (WebDriverWait(driver, 30), which raises after 30 seconds) are inside it.
ScrapeLinkedin ==
    /\ Running
    /\ At = "scrape_linkedin"
    /\ IF ~doc.url
       THEN /\ pc' = pc + 1
            /\ UNCHANGED <<results, steps, failed, outcome>>
       ELSE \E browser \in {"driver_fails", "skills", "raises"} :
              IF browser = "driver_fails"
              THEN /\ steps' = Append(steps, "scrape_linkedin")
                   /\ failed' = failed \cup {"scrape_linkedin"}
                   /\ pc' = 0
                   /\ outcome' = "exception"
                   /\ results' = results
              ELSE /\ steps' = steps \o <<"scrape_linkedin", "driver.get">>
                   /\ failed' = (IF browser = "raises"
                                 THEN failed \cup {"scrape_linkedin"} ELSE failed)
                   /\ results' = Set("linkedin_skills",
                          IF browser = "raises" THEN <<>> ELSE <<"skill">>)
                   /\ pc' = pc + 1
                   /\ outcome' = outcome
    /\ UNCHANGED <<experience, project_score, dates, projects, tokens, ratios, ret,
                   entry, doc, text, hf_api_key>>

\* The report: the results are returned (full_analysis_pipeline) or displayed.
Finish ==
    /\ Running
    /\ At \in {"return", "display"}
    /\ steps' = Append(steps, At)
    /\ pc' = 0
    /\ outcome' = "report"
    /\ UNCHANGED <<experience, project_score, dates, projects, tokens, ratios, ret,
                   entry, doc, text, hf_api_key, results, failed>>

NextRun ==
    \/ ExtractText
    \/ CoreStep
    \/ AnalyzeLinkedinProfile
    \/ GetHfAnalysis
    \/ GetAiAnalysis
    \/ ScrapeLinkedin
    \/ Finish

SpecRun == InitRun /\ [][NextRun]_vars

\* The run is one thread of straight-line code: it takes its next step
\* whenever it has one.
FairSpecRun == InitRun /\ [][NextRun]_vars /\ WF_vars(NextRun)

(***************************************************************************)
(* Claims about the classifiers (checked under SpecProf)                   *)
(***************************************************************************)

\* The experience bands the classification is stated over: <=1, 1-3, 3-5, >5.
InBand(b, exp) ==
    CASE b = 1 -> exp <= 10
      [] b = 2 -> 10 < exp /\ exp <= 30
      [] b = 3 -> 30 < exp /\ exp <= 50
      [] b = 4 -> exp > 50

TierLabel ==
    <<"Entry Level", "Junior", "Mid-Level", "Professional",
      "Senior", "Expert", "Principal", "Architect">>

\* C1: determine_proficiency is total and single-valued: exactly one
\* experience band applies to the input, the returned level is one of the two
\* levels of that band (so it lies in 1..8), and the label is the one fixed by
\* the level; nothing falls through to an unmatched result.
C1_ProficiencyTotal ==
    ret.fn = "determine_proficiency" =>
        /\ Cardinality({b \in 1..4 : InBand(b, experience)}) = 1
        /\ ret.val[2] \in 1..8
        /\ ret.val[1] = TierLabel[ret.val[2]]
        /\ \A b \in 1..4 :
             InBand(b, experience) => ret.val[2] \in {2 * b - 1, 2 * b}

\* C1 witness: the classifier has run on an input of the last band and
\* returned its upper tier.
C1_Witness ==
    /\ ret.fn = "determine_proficiency"
    /\ experience > 50
    /\ ret.val = <<"Architect", 8>>

\* C2: categorize_candidate never produces its result from the catch-all
\* else branch.
C2_NoFallback ==
    ret.fn = "categorize_candidate" => ret.branch # 5

\* C3: the readiness verdict uses the threshold the tier was computed with:
\* ready and score are computed with project_score >= 4, and for level >= 3
\* that test is true exactly for the upper tier of the band (4, 6, 8).
C3_ReadinessThreshold ==
    ret.fn = "readiness" =>
        /\ ret.val.ready = (ret.proficiency[2] >= 3 /\ project_score >= 4)
        /\ ret.val.score =
             ret.proficiency[2] + (IF project_score >= 4 THEN 1 ELSE 0)
        /\ (ret.proficiency[2] >= 3 =>
              ((project_score >= 4) <=> (ret.proficiency[2] \in {4, 6, 8})))

(***************************************************************************)
(* Claims about the experience calculators (checked under SpecExp)         *)
(***************************************************************************)
ExperienceFns ==
    {"calculate_experience", "cv_vetter.parse_experience", "test.parse_experience"}

\* The length of the interval from start to end in the unit of the
\* calculator that ran (days, or whole months for relativedelta).
Duration(unit, start, end) ==
    IF unit = "days" THEN DeltaDays(start, end) ELSE RelativeMonths(start, end)

RoundUnit(unit, n) == IF unit = "days" THEN RoundDays(n) ELSE RoundMonths(n)

StartOf(p) == dateparser_parse(dates[p])
EndOf(p) == end_date(end_str(dates, p))

\* C4: in every experience calculator an odd-length token sequence has its
\* final unpaired token taken as the start of an interval ending now, whose
\* duration is added when the token resolves to a past date; a single
\* resolvable past token yields the token-to-now duration.
C4_TrailingTokenCounted ==
    (/\ ret.fn \in ExperienceFns
     /\ Len(dates) % 2 = 1
     /\ StartOf(Len(dates)) # None
     /\ Ordinal(StartOf(Len(dates))) <= Ordinal(current_date))
    =>
    (/\ Len(dates) \in DOMAIN ret.res.contrib
     /\ ret.res.contrib[Len(dates)] =
            Duration(ret.unit, StartOf(Len(dates)), current_date)
     /\ (Len(dates) = 1 =>
            ret.res.val = RoundUnit(ret.unit,
                              Duration(ret.unit, StartOf(1), current_date))))

\* C5: in every experience calculator a pair whose resolved start is strictly
\* after the current date contributes nothing, whatever its end token is.
C5_FutureStartIgnored ==
    ret.fn \in ExperienceFns =>
        \A p \in 1..Len(dates) :
            (/\ p % 2 = 1
             /\ StartOf(p) # None
             /\ Ordinal(StartOf(p)) > Ordinal(current_date))
            => (p \in DOMAIN ret.res.contrib => ret.res.contrib[p] = 0)

\* C6: every pair adds a contribution >= 0; a pair with an unresolvable side
\* or with its start after its end adds exactly 0; the total is the sum of
\* the per-pair contributions, so it is at least each of them; the returned
\* value is never negative and at least each pair's (rounded) contribution;
\* no tokens give 0.
C6_PerPairClamp ==
    ret.fn \in ExperienceFns =>
        /\ \A p \in DOMAIN ret.res.contrib :
             /\ ret.res.contrib[p] >= 0
             /\ (StartOf(p) = None \/ EndOf(p) = None) => ret.res.contrib[p] = 0
             /\ (StartOf(p) # None /\ EndOf(p) # None
                    /\ Ordinal(StartOf(p)) > Ordinal(EndOf(p)))
                  => ret.res.contrib[p] = 0
             /\ ret.res.total >= ret.res.contrib[p]
             /\ ret.res.val >= RoundUnit(ret.unit, ret.res.contrib[p])
        /\ ret.res.val >= 0
        /\ (dates = <<>> => ret.res.val = 0)

\* C6 witness: calculate_experience has run on a sequence with one reversed
\* pair (start after end, adding 0) and one pair adding a positive duration.
C6_Witness ==
    /\ ret.fn = "calculate_experience"
    /\ \E p, q \in DOMAIN ret.res.contrib :
         /\ StartOf(p) # None /\ EndOf(p) # None
         /\ Ordinal(StartOf(p)) > Ordinal(EndOf(p))
         /\ ret.res.contrib[p] = 0
         /\ ret.res.contrib[q] > 0
         /\ ret.res.val = RoundDays(ret.res.contrib[q])
         /\ ret.res.val > 0

(***************************************************************************)
(* Claims about the project scorers (checked under SpecScore)              *)
(***************************************************************************)

\* The weights the claim names.
NamedWeight ==
    [w \in {"scalable", "microservices", "containerized", "ci/cd", "optimized"} |->
        IF w \in {"ci/cd", "optimized"} THEN 2 ELSE 3]

OnlyNamedKeywords ==
    \A i \in 1..Len(projects) : \A w \in SampleKeywords :
        Contains(projects[i], w) => w \in DOMAIN NamedWeight

SegmentWeight(seg) ==
    SumOver(NamedWeight, {w \in DOMAIN NamedWeight : Contains(seg, w)})

OnlyMicroservices(seg) ==
    \A w \in SampleKeywords : Contains(seg, w) <=> w = "microservices"

RangeOf(seq) == {seq[k] : k \in 1..Len(seq)}

WeightOf(word) == (CHOOSE kw \in RangeOf(keywords) : kw[1] = word)[2]

C8_EmptyTextStops ==
    (entry \in Entries /\ text.read /\ text.blank) =>
        /\ \A i \in 1..Len(steps) : steps[i] = "extract_text"
        /\ outcome # "report"
        /\ (pc = 0 => outcome = "precondition_error")

\* The error or sentinel value a failed collaborator leaves in its field.
ErrorRecorded(collaborator) ==
    CASE collaborator = "extract_text" -> text.read /\ text.blank
      [] collaborator = "analyze_linkedin_profile" ->
            "linkedin" \in DOMAIN results /\ ~results["linkedin"].valid
      [] collaborator \in {"get_hf_analysis", "get_ai_analysis"} ->
            /\ "ai_analysis" \in DOMAIN results
            /\ results["ai_analysis"] # "generated_text"
      [] collaborator = "scrape_linkedin" ->
            /\ "linkedin_skills" \in DOMAIN results
            /\ results["linkedin_skills"] = <<>>

\* C9: a failure of any collaborator is caught at its boundary and turned
\* into an error or sentinel value in its field; no exception leaves the
\* run, and the run still completes with its report.  (A run whose
\* document could not be parsed is allowed to end with the precondition
\* failure of C8 instead of a report.)
C9_CollaboratorFailureContained ==
    entry \in Entries =>
        /\ outcome # "exception"
        /\ \A c \in failed : ErrorRecorded(c)
        /\ (pc = 0 /\ failed # {} =>
              outcome = (IF "extract_text" \in failed
                         THEN "precondition_error" ELSE "report"))

\* C10 as stated: once a network call has been made, no core step executes
\* later in the run.
C10_NoCoreAfterNetwork ==
    \A i, j \in 1..Len(steps) :
        (i < j /\ steps[i] \in NetworkCalls) => steps[j] \notin CoreSteps

\* C10 amended: once a network call has been made, the only core step that
\* executes later in the run is the readiness evaluation (in
\* full_analysis_pipeline it reads the profile check's result; in test.main
\* it follows the profile scrape); identity, experience, skills, project
\* scoring and classification never run after a network call.
C10_OnlyReadinessAfterNetwork ==
    \A i, j \in 1..Len(steps) :
        (i < j /\ steps[i] \in NetworkCalls) =>
            steps[j] \notin (CoreSteps \ ReadinessSteps)

\* C10 witness: full_analysis_pipeline has made the profile request, then
\* evaluated readiness, then called the language model, and returned.
C10_Witness ==
    /\ entry = "full_analysis_pipeline"
    /\ outcome = "report"
    /\ \E i, j, k \in 1..Len(steps) :
         /\ i < j /\ j < k
         /\ steps[i] = "requests.head"
         /\ steps[j] = "readiness"
         /\ steps[k] = "requests.post"

(***************************************************************************)
(* Claims about termination (checked under FairSpecRun)                    *)
(***************************************************************************)
CollaboratorCalls ==
    {"analyze_linkedin_profile", "scrape_linkedin", "get_hf_analysis",
     "get_ai_analysis"} \cup NetworkCalls

\* C11: every collaborator is called at most once per run, and every run
\* eventually finishes even if a collaborator never answers: no call waits
\* forever.  (A run that ends with the precondition failure or with an
\* exception counts as finished here.)
C11_RunFinishes ==
    /\ [](\A c \in CollaboratorCalls :
            Cardinality({i \in 1..Len(steps) : steps[i] = c}) <= 1)
    /\ <>(outcome \notin {"running", "waiting"})

(***************************************************************************)
(* Claims about the skill matchers (checked under SpecSkills)              *)
(***************************************************************************)
SkillFns == {"extract_skills", "cv_vetter.extract_skills", "test.parse_skills"}

\* The skills of category c that some token matches, in canonical form.
MatchedSkills(db, c) ==
    {Capitalize(Lower(tokens[i])) :
        i \in {j \in 1..Len(tokens) : Lower(tokens[j]) \in db[c]}}

\* C12: every skill matcher returns exactly the categories with at least one
\* token equal, case-insensitively, to one of its keywords, each with every
\* matched skill once in capitalised form, whatever the order and the
\* repetitions; 'python', 'Python', 'REACT' give Languages -> Python,
\* Frameworks -> React and no Tools entry.
C12_SkillsMatched ==
    ret.fn \in SkillFns =>
        /\ DOMAIN ret.val = {c \in Categories : MatchedSkills(ret.db, c) # {}}
        /\ \A c \in DOMAIN ret.val : ret.val[c] = MatchedSkills(ret.db, c)
        /\ (tokens = <<"python", "Python", "REACT">> =>
              ret.val = [Languages |-> {"Python"}, Frameworks |-> {"React"}])

(***************************************************************************)
(* Claims about empty and non-empty project segments (under SpecPlag)      *)
(***************************************************************************)
\* The largest ratio of segment i to a known project.
SegmentMax(i) ==
    CHOOSE m \in {ratios[i][kp] : kp \in known_projects} :
        \A kp \in known_projects : ratios[i][kp] <= m

SegmentMaxima == [i \in 1..Len(ratios) |-> SegmentMax(i)]

\* C13: with no project segment score_projects returns 0 and
\* check_plagiarism returns 0 without raising; with segments
\* check_plagiarism raises nothing and returns 100 times the mean over the
\* segments of the largest similarity to a known project, which lies
\* between 0 and 100.
C13_EmptyAndMean ==
    /\ (ret.fn = "test.score_projects" /\ projects = <<>>) => ret.val = 0
    /\ ret.fn = "check_plagiarism" =>
          /\ ret.val.raised = "none"
          /\ projects = <<>> => ret.val.num = 0
          /\ projects # <<>> =>
                /\ ret.val.den = Len(projects)
                /\ ret.val.num = SumOver(SegmentMaxima, DOMAIN SegmentMaxima)
                /\ 0 <= ret.val.num
                /\ ret.val.num <= 100 * ret.val.den

C13_Witness ==
    /\ ret.fn = "check_plagiarism"
    /\ Len(projects) = 2
    /\ ratios[1] = <<0, 50, 0>>
    /\ ratios[2] = <<0, 0, 100>>
    /\ ret.val = [raised |-> "none", num |-> 150, den |-> 2]

(***************************************************************************)
(* Claims about the independence of the scoring from the collaborators     *)
(* (checked under SpecRun)                                                 *)
(***************************************************************************)
PipelineEntries == {"full_analysis_pipeline", "cv_vetter2.main"}

ScoringFields ==
    {"personal", "experience", "skills", "project_score", "proficiency", "readiness"}

CollaboratorFields == {"linkedin", "ai_analysis"}

\* What the resume text and the current date alone determine.
TextExperience == calculate_experience(dates).val
TextScore == score_projects(projects)
TextProficiency == determine_proficiency(TextExperience, TextScore)

Has(field) == field \in DOMAIN results

\* C14: in full_analysis_pipeline the personal details, experience, skills,
\* project_score, proficiency and the 'ready' and 'score' of readiness (and
\* its first two factors) are determined by the resume text and the current
\* date alone, whatever the profile check answered, whether an API key was
\* given and whatever the language model answered; a returned result holds
\* all of them, and nothing else but 'linkedin' and 'ai_analysis'.
C14_ScoringFromTextOnly ==
    entry \in PipelineEntries =>
        /\ DOMAIN results \subseteq ScoringFields \cup CollaboratorFields
        /\ Has("personal") =>
              results["personal"] =
                 [linkedin |-> IF doc.url THEN "linkedin.com/in/slug" ELSE "Not Found"]
        /\ Has("experience") => results["experience"] = TextExperience
        /\ Has("skills") => results["skills"] = extract_skills(tokens)
        /\ Has("project_score") => results["project_score"] = TextScore
        /\ Has("proficiency") => results["proficiency"] = TextProficiency
        /\ Has("readiness") =>
              /\ results["readiness"].ready = (TextProficiency[2] >= 3 /\ TextScore >= 4)
              /\ results["readiness"].score =
                    TextProficiency[2] + (IF TextScore >= 4 THEN 1 ELSE 0)
              /\ results["readiness"].factors[1] = <<"Proficiency Level", TextProficiency[2]>>
              /\ results["readiness"].factors[2] = <<"Project Score", TextScore>>
        /\ outcome = "report" => ScoringFields \subseteq DOMAIN results

\* C14 witness: a returned run that is ready although the profile check
\* failed and the language model answered with an error.
C14_Witness ==
    /\ entry = "full_analysis_pipeline"
    /\ outcome = "report"
    /\ hf_api_key
    /\ Has("linkedin") /\ ~results["linkedin"].valid
    /\ "requests.head" \in {steps[i] : i \in 1..Len(steps)}
    /\ Has("ai_analysis") /\ results["ai_analysis"] # "generated_text"
    /\ Has("readiness") /\ results["readiness"].ready
    /\ results["skills"] = [Languages |-> {"Python"}, Frameworks |-> {"React"}]

=============================================================================
